---- MODULE Spec2Model ----
(***************************************************************************)
(* Model of MarketingStrategyPicker (src/marketing_strategy_picker.py):    *)
(* the funnel-stage catalog, the label index built at construction, and    *)
(* the two queries get_strategies_for_stage and                            *)
(* get_funnel_recommendations.                                             *)
(*                                                                         *)
(* A strategy record is [name, types, has_impact, impact].  Python strings *)
(* that are compared with < are sequences of code points (impact); strings *)
(* that are only tested for equality or hashed are TLA+ strings (name,     *)
(* types, stage keys).  A reference to a record is its position in         *)
(* self.strategies: buckets and results hold references, as the Python     *)
(* lists hold references to the same dict objects.                         *)
(***************************************************************************)
EXTENDS Integers, Sequences, FiniteSets, TLC

VARIABLES strategies, strategies_by_type, pc, call, returned, recommendations,
          constructed

vars == <<strategies, strategies_by_type, pc, call, returned, recommendations,
          constructed>>

(***************************************************************************)
(* Bounds of the model.                                                    *)
(***************************************************************************)
MaxRecords == 3

MaxLimit == 3

MaxRequested == 2

(***************************************************************************)
(* Python values.                                                          *)
(***************************************************************************)
\* 'High' and 'Hi' as code points, and '' (the empty string).
High == <<72, 105, 103, 104>>

Hi == <<72, 105>>

EmptyStr == <<>>

Rec(n, t, h, i) == [name |-> n, types |-> t, has_impact |-> h, impact |-> i]

\* The records a loaded collection is drawn from: records sharing a name, a
\* label listed twice, a label of no stage, no labels, no impact, equal
\* impacts, an impact that is a prefix of another.
RecordPool ==
    { Rec("X", <<"Referral", "Awareness">>, TRUE, Hi),
      Rec("Y", <<"Awareness", "Referral">>, TRUE, High),
      Rec("Z", <<"Awareness">>, TRUE, High),
      Rec("Y", <<"Awareness", "Awareness">>, FALSE, EmptyStr),
      Rec("W", <<"Other", "Awareness">>, TRUE, High),
      Rec("Z", <<>>, TRUE, High) }

\* The stage keys a caller passes: catalog keys and a key of no stage.
StageKeyInputs ==
    {"awareness", "acquisition", "activation", "revenue", "retention",
     "referral", "not_a_stage"}

RequestKeyInputs == {"awareness", "referral", "not_a_stage"}

LimitInputs == (-1)..MaxLimit

Min(a, b) == IF a < b THEN a ELSE b

Max(a, b) == IF a < b THEN b ELSE a

Range(s) == { s[i] : i \in DOMAIN s }

\* a < b for Python str: code-point lexicographic order.
StrLess(a, b) ==
    \E k \in 0..Min(Len(a), Len(b)) :
        /\ \A i \in 1..k : a[i] = b[i]
        /\ \/ k = Len(a) /\ k < Len(b)
           \/ k < Len(a) /\ k < Len(b) /\ a[k + 1] < b[k + 1]

\* seq[:limit]
Slice(seq, limit) ==
    IF limit >= 0
    THEN SubSeq(seq, 1, Min(limit, Len(seq)))
    ELSE SubSeq(seq, 1, Max(0, Len(seq) + limit))

(***************************************************************************)
(* The stage catalog.                                                      *)
(***************************************************************************)
FUNNEL_STAGES ==
    [ awareness |->
        [name |-> "Osvedomlennost",
         description |-> "Privlechenie vnimaniya k produktu/brendu",
         types |-> <<"Awareness">>, order |-> 1],
      acquisition |->
        [name |-> "Privlechenie",
         description |-> "Privlechenie trafika na sajt/prilozhenie",
         types |-> <<"Acquisition">>, order |-> 2],
      activation |->
        [name |-> "Aktivaciya",
         description |-> "Vovlechenie polzovatelej, registraciya, pervyj opyt",
         types |-> <<"Activation">>, order |-> 3],
      revenue |->
        [name |-> "Dohod",
         description |-> "Sovershenie pervoj pokupki",
         types |-> <<"Revenue">>, order |-> 4],
      retention |->
        [name |-> "Uderzhanie",
         description |-> "Povtornye pokupki, loyalnost klientov",
         types |-> <<"Retention">>, order |-> 5],
      referral |->
        [name |-> "Referaly",
         description |-> "Rekomendacii, sarafannoe radio",
         types |-> <<"Referral">>, order |-> 6] ]

\* list(self.FUNNEL_STAGES.keys()): the keys in declaration order.
FunnelStageKeys ==
    <<"awareness", "acquisition", "activation", "revenue", "retention",
      "referral">>

(***************************************************************************)
(* Construction: the label index.                                          *)
(***************************************************************************)
\* grouped[strategy_type].append(strategy) on a defaultdict(list)
GroupedAppend(grouped, strategy_type, ref) ==
    IF strategy_type \in DOMAIN grouped
    THEN [grouped EXCEPT ![strategy_type] = Append(@, ref)]
    ELSE grouped @@ (strategy_type :> <<ref>>)

RECURSIVE GroupTypes(_, _, _)
\* the inner loop: for strategy_type in strategy.get('types', [])
GroupTypes(grouped, types, ref) ==
    IF types = <<>>
    THEN grouped
    ELSE GroupTypes(GroupedAppend(grouped, Head(types), ref), Tail(types), ref)

RECURSIVE GroupFrom(_, _, _)
\* the outer loop: for strategy in self.strategies, from position ref on
GroupFrom(grouped, recs, ref) ==
    IF ref > Len(recs)
    THEN grouped
    ELSE GroupFrom(GroupTypes(grouped, recs[ref].types, ref), recs, ref + 1)

_group_strategies_by_type(recs) == GroupFrom(<<>>, recs, 1)

(***************************************************************************)
(* get_strategies_for_stage                                                *)
(***************************************************************************)
RECURSIVE CollectAllBuckets(_, _)
CollectAllBuckets(by_type, labels) ==
    IF labels = {}
    THEN <<>>
    ELSE LET t == CHOOSE x \in labels : TRUE
         IN  by_type[t] \o CollectAllBuckets(by_type, labels \ {t})

\* Variant: the stage's types are not consulted, every bucket is collected.
CollectTypes_EveryBucket(by_type, types) ==
    CollectAllBuckets(by_type, DOMAIN by_type)

RECURSIVE CollectTypes(_, _)
\* for strategy_type in stage_info['types']: strategies.extend(bucket)
CollectTypes(by_type, types) ==
    IF types = <<>>
    THEN <<>>
    ELSE (IF Head(types) \in DOMAIN by_type THEN by_type[Head(types)] ELSE <<>>)
         \o CollectTypes(by_type, Tail(types))

\* Variant: the seen_names test is missing.
UniqueAppend_NoSeenCheck(recs, unique_strategies, ref) ==
    Append(unique_strategies, ref)

\* one step of the dedup loop: keep strategy unless its name was seen
UniqueAppend(recs, unique_strategies, ref) ==
    IF recs[ref].name \in { recs[u].name : u \in Range(unique_strategies) }
    THEN unique_strategies
    ELSE Append(unique_strategies, ref)

RECURSIVE Unique(_, _)
\* the dedup loop over strategies (seen_names is the names of the result)
Unique(recs, refs) ==
    IF refs = <<>>
    THEN <<>>
    ELSE UniqueAppend(recs, Unique(recs, SubSeq(refs, 1, Len(refs) - 1)),
                      refs[Len(refs)])

\* key=lambda x: x.get('impact', '')
ImpactKey(recs, ref) ==
    IF recs[ref].has_impact THEN recs[ref].impact ELSE EmptyStr

\* Variant: reverse=True dropped, the sort is ascending.
InsertByImpact_Ascending(recs, sorted, ref) ==
    SelectSeq(sorted, LAMBDA e : ~StrLess(ImpactKey(recs, ref), ImpactKey(recs, e)))
    \o <<ref>>
    \o SelectSeq(sorted, LAMBDA e : StrLess(ImpactKey(recs, ref), ImpactKey(recs, e)))

\* Variant: descending by an ascending sort reversed, which reverses ties.
InsertByImpact_TiesReversed(recs, sorted, ref) ==
    SelectSeq(sorted, LAMBDA e : StrLess(ImpactKey(recs, ref), ImpactKey(recs, e)))
    \o <<ref>>
    \o SelectSeq(sorted, LAMBDA e : ~StrLess(ImpactKey(recs, ref), ImpactKey(recs, e)))

\* list.sort(key=..., reverse=True) is stable: an element goes after every
\* element whose key is greater than or equal to its own.
InsertByImpact(recs, sorted, ref) ==
    SelectSeq(sorted, LAMBDA e : ~StrLess(ImpactKey(recs, e), ImpactKey(recs, ref)))
    \o <<ref>>
    \o SelectSeq(sorted, LAMBDA e : StrLess(ImpactKey(recs, e), ImpactKey(recs, ref)))

RECURSIVE SortByImpact(_, _)
SortByImpact(recs, refs) ==
    IF refs = <<>>
    THEN <<>>
    ELSE InsertByImpact(recs, SortByImpact(recs, SubSeq(refs, 1, Len(refs) - 1)),
                        refs[Len(refs)])

\* Variant: the slice is taken before the sort.
RankedForStage_SliceFirst(recs, by_type, stage_key, limit) ==
    SortByImpact(recs,
        Slice(Unique(recs, CollectTypes(by_type, FUNNEL_STAGES[stage_key].types)),
              limit))

\* The body after the catalog test: collect, dedup, sort, slice.
RankedForStage(recs, by_type, stage_key, limit) ==
    Slice(SortByImpact(recs,
              Unique(recs, CollectTypes(by_type, FUNNEL_STAGES[stage_key].types))),
          limit)

\* Variant: the local list is the bucket itself (no copy), so the sort and
\* the dedup act on the index.
IndexAfterStage_Aliased(recs, by_type, stage_key, limit) ==
    [t \in DOMAIN by_type |->
        IF t \in Range(FUNNEL_STAGES[stage_key].types)
        THEN SortByImpact(recs, Unique(recs, by_type[t]))
        ELSE by_type[t]]

\* What the call leaves in self.strategies_by_type: extend() copies the
\* bucket's references into the local list, the sort is on unique_strategies,
\* the slice is a new list.
IndexAfterStage(recs, by_type, stage_key, limit) == by_type

\* The call: its return value and the index it leaves behind.
get_strategies_for_stage(recs, by_type, stage_key, limit) ==
    IF stage_key \notin DOMAIN FUNNEL_STAGES
    THEN [ret |-> <<>>, by_type |-> by_type]
    ELSE [ret |-> RankedForStage(recs, by_type, stage_key, limit),
          by_type |-> IndexAfterStage(recs, by_type, stage_key, limit)]

(***************************************************************************)
(* get_funnel_recommendations                                              *)
(***************************************************************************)
\* The argument selected_stages: None, a list of keys, or a bare string.
NoneArg == [tag |-> "None", val |-> <<>>]

ListArg(keys) == [tag |-> "list", val |-> keys]

StrArg(key) == [tag |-> "str", val |-> <<key>>]

\* Variant: None is not replaced by the catalog keys.
NormalizeSelected_NoDefault(selected_stages) == selected_stages.val

\* None becomes every catalog key; a value that is not a list is wrapped.
NormalizeSelected(selected_stages) ==
    IF selected_stages.tag = "None"
    THEN FunnelStageKeys
    ELSE selected_stages.val

\* Variant: the scan stops at the first key that is not in the catalog.
KnownStages_StopAtUnknown(keys) ==
    IF \A i \in DOMAIN keys : keys[i] \in DOMAIN FUNNEL_STAGES
    THEN keys
    ELSE SubSeq(keys, 1,
                (CHOOSE i \in DOMAIN keys :
                    /\ keys[i] \notin DOMAIN FUNNEL_STAGES
                    /\ \A j \in 1..(i - 1) : keys[j] \in DOMAIN FUNNEL_STAGES) - 1)

\* [stage for stage in selected_stages if stage in self.FUNNEL_STAGES]
KnownStages(keys) == SelectSeq(keys, LAMBDA k : k \in DOMAIN FUNNEL_STAGES)

\* sorted(..., key=order) is stable: a key goes after every key whose order
\* is less than or equal to its own.
InsertByOrder(sorted, key) ==
    SelectSeq(sorted, LAMBDA e : FUNNEL_STAGES[e].order <= FUNNEL_STAGES[key].order)
    \o <<key>>
    \o SelectSeq(sorted, LAMBDA e : FUNNEL_STAGES[e].order > FUNNEL_STAGES[key].order)

RECURSIVE SortByOrder(_)
SortByOrder(keys) ==
    IF keys = <<>>
    THEN <<>>
    ELSE InsertByOrder(SortByOrder(SubSeq(keys, 1, Len(keys) - 1)), keys[Len(keys)])

\* Variant: the filtered keys are left in the caller's order.
sorted_stages_CallerOrder(selected_stages) ==
    KnownStages(NormalizeSelected(selected_stages))

sorted_stages(selected_stages) ==
    SortByOrder(KnownStages(NormalizeSelected(selected_stages)))

\* A dict: its keys in insertion order and the value of each key.
EmptyDict == [keys |-> <<>>, items |-> <<>>]

\* d[key] = value: a key already present keeps its position.
DictSet(d, key, value) ==
    IF key \in Range(d.keys)
    THEN [keys |-> d.keys, items |-> [d.items EXCEPT ![key] = value]]
    ELSE [keys |-> Append(d.keys, key), items |-> d.items @@ (key :> value)]

\* recommendations[stage_key] = {...}
StageEntry(stage_key, strats) ==
    [stage_name |-> FUNNEL_STAGES[stage_key].name,
     description |-> FUNNEL_STAGES[stage_key].description,
     strategies |-> strats,
     count |-> Len(strats)]

RECURSIVE RecommendLoop(_, _, _, _, _)
\* for stage_key in sorted_stages: the dict built and the index left behind
RecommendLoop(recs, by_type, stages, limit, recommended) ==
    IF stages = <<>>
    THEN [ret |-> recommended, by_type |-> by_type]
    ELSE LET r == get_strategies_for_stage(recs, by_type, Head(stages), limit)
         IN  RecommendLoop(recs, r.by_type, Tail(stages), limit,
                           DictSet(recommended, Head(stages),
                                   StageEntry(Head(stages), r.ret)))

get_funnel_recommendations(recs, by_type, selected_stages, strategies_per_stage) ==
    RecommendLoop(recs, by_type, sorted_stages(selected_stages),
                  strategies_per_stage, EmptyDict)

(***************************************************************************)
(* The state machine: a picker is constructed from a loaded collection,    *)
(* then callers query it.                                                  *)
(***************************************************************************)
Collections == UNION { [1..n -> RecordPool] : n \in 0..MaxRecords }

RequestLists == UNION { [1..n -> RequestKeyInputs] : n \in 0..MaxRequested }

SelectedInputs ==
    {NoneArg} \cup { ListArg(l) : l \in RequestLists }
              \cup { StrArg(k) : k \in RequestKeyInputs }

NoCall == [op |-> "none", stage_key |-> "", selected_stages |-> NoneArg, limit |-> 0]

\* __init__: self.strategies loaded, self.strategies_by_type grouped from it.
Init ==
    /\ strategies \in Collections
    /\ strategies_by_type = _group_strategies_by_type(strategies)
    /\ pc = "idle"
    /\ call = NoCall
    /\ returned = <<>>
    /\ recommendations = EmptyDict
    /\ constructed = [strategies |-> strategies,
                      strategies_by_type |-> strategies_by_type]

GetStrategiesForStage ==
    /\ pc = "idle"
    /\ \E stage_key \in StageKeyInputs, limit \in LimitInputs :
         LET r == get_strategies_for_stage(strategies, strategies_by_type,
                                           stage_key, limit)
         IN  /\ call' = [op |-> "get_strategies_for_stage", stage_key |-> stage_key,
                         selected_stages |-> NoneArg, limit |-> limit]
             /\ returned' = r.ret
             /\ strategies_by_type' = r.by_type
    /\ pc' = "returned"
    /\ UNCHANGED <<strategies, recommendations, constructed>>

GetFunnelRecommendations ==
    /\ pc = "idle"
    /\ \E selected_stages \in SelectedInputs, limit \in LimitInputs :
         LET r == get_funnel_recommendations(strategies, strategies_by_type,
                                             selected_stages, limit)
         IN  /\ call' = [op |-> "get_funnel_recommendations", stage_key |-> "",
                         selected_stages |-> selected_stages, limit |-> limit]
             /\ recommendations' = r.ret
             /\ strategies_by_type' = r.by_type
    /\ pc' = "returned"
    /\ UNCHANGED <<strategies, returned, constructed>>

\* The caller is done with the returned value (interactive_mode prints the
\* recommendations and leaves); the picker is ready for the next call.
Discard ==
    /\ pc = "returned"
    /\ pc' = "idle"
    /\ call' = NoCall
    /\ returned' = <<>>
    /\ recommendations' = EmptyDict
    /\ UNCHANGED <<strategies, strategies_by_type, constructed>>

Next == GetStrategiesForStage \/ GetFunnelRecommendations \/ Discard

Spec == Init /\ [][Next]_vars

TypeOK ==
    /\ pc \in {"idle", "returned"}
    /\ Range(returned) \subseteq 1..Len(strategies)

(***************************************************************************)
(* Properties.                                                             *)
(***************************************************************************)
StageCall == pc = "returned" /\ call.op = "get_strategies_for_stage"

ReportCall == pc = "returned" /\ call.op = "get_funnel_recommendations"

CatalogStageCall == StageCall /\ call.stage_key \in DOMAIN FUNNEL_STAGES

\* The concatenation of the label buckets of the stage that was asked for.
StageBuckets ==
    CollectTypes(strategies_by_type, FUNNEL_STAGES[call.stage_key].types)

NameOf(ref) == strategies[ref].name

KeyOf(ref) == IF strategies[ref].has_impact THEN strategies[ref].impact ELSE <<>>

\* C1: the entries of a report iterate in strictly ascending catalog order
\* of their stage keys, whatever order the caller listed the keys in.
C1_ReportInCatalogOrder ==
    (ReportCall /\ call.limit >= 0) =>
        \A i, j \in 1..Len(recommendations.keys) :
            i < j => FUNNEL_STAGES[recommendations.keys[i]].order
                        < FUNNEL_STAGES[recommendations.keys[j]].order

C1_Witness ==
    /\ ReportCall
    /\ call.limit >= 0
    /\ call.selected_stages = ListArg(<<"referral", "awareness">>)
    /\ recommendations.keys = <<"awareness", "referral">>

\* C2: a call with a negative limit never returns a sequence or a report
\* (it fails with a validation error instead).
C2_NegativeLimitRejected == ~(pc = "returned" /\ call.limit < 0)

\* C3: the sequence returned for a stage has no two records of the same
\* name, and every returned record is the first record of its name in the
\* concatenation of the stage's label buckets.
C3_DedupFirstWins ==
    (CatalogStageCall /\ call.limit >= 0) =>
        /\ \A i, j \in 1..Len(returned) :
              i # j => NameOf(returned[i]) # NameOf(returned[j])
        /\ \A i \in 1..Len(returned) :
              \E p \in 1..Len(StageBuckets) :
                  /\ StageBuckets[p] = returned[i]
                  /\ \A q \in 1..(p - 1) :
                        NameOf(StageBuckets[q]) # NameOf(returned[i])

C3_Witness ==
    /\ CatalogStageCall
    /\ call.limit >= 0
    /\ \E p, q \in 1..Len(StageBuckets) :
          /\ p < q
          /\ StageBuckets[p] # StageBuckets[q]
          /\ NameOf(StageBuckets[p]) = NameOf(StageBuckets[q])
          /\ StageBuckets[p] \in Range(returned)
    /\ \E p, q \in 1..Len(StageBuckets) :
          p < q /\ StageBuckets[p] = StageBuckets[q]

\* C4: every record returned for a stage carries at least one of the
\* stage's labels, so a record with no labels is in no returned sequence
\* and in no entry of a report.
C4_OnlyStageLabels ==
    /\ CatalogStageCall =>
          \A r \in Range(returned) :
              Range(strategies[r].types)
                 \cap Range(FUNNEL_STAGES[call.stage_key].types) # {}
    /\ StageCall => \A r \in Range(returned) : strategies[r].types # <<>>
    /\ ReportCall =>
          \A k \in Range(recommendations.keys) :
              \A r \in Range(recommendations.items[k].strategies) :
                  Range(strategies[r].types) \cap Range(FUNNEL_STAGES[k].types) # {}

C4_Witness ==
    /\ CatalogStageCall
    /\ returned # <<>>
    /\ \E i \in 1..Len(strategies) : strategies[i].types = <<>>
    /\ \E i \in 1..Len(strategies) :
          /\ strategies[i].types # <<>>
          /\ i \notin Range(returned)
          /\ NameOf(i) \notin { NameOf(r) : r \in Range(returned) }

\* C5: the returned sequence is the first min(limit, n) entries of the
\* deduplicated bucket after sorting (n its size): empty for limit 0, the
\* whole sorted bucket for limit >= n, and no record left out has a
\* strictly greater impact than a returned one.
C5_TruncateAfterSort ==
    (CatalogStageCall /\ call.limit >= 0) =>
        LET unique == Unique(strategies, StageBuckets)
            full == SortByImpact(strategies, unique)
            n == Cardinality({ NameOf(r) : r \in Range(StageBuckets) })
        IN  /\ Len(full) = n
            /\ Len(returned) = Min(call.limit, n)
            /\ \A i \in 1..Len(returned) : returned[i] = full[i]
            /\ call.limit = 0 => returned = <<>>
            /\ call.limit >= n => returned = full
            /\ \A q \in Range(returned) :
                  \A r \in Range(unique) \ Range(returned) :
                      ~StrLess(KeyOf(q), KeyOf(r))

C5_Witness ==
    /\ CatalogStageCall
    /\ call.limit > 0
    /\ call.limit < Len(Unique(strategies, StageBuckets))
    /\ returned[1] # StageBuckets[1]
    /\ \E r \in Range(StageBuckets) \ Range(returned) :
          StrLess(KeyOf(r), KeyOf(returned[Len(returned)]))

\* C6: the returned sequence is in non-increasing lexicographic order of
\* impact, a record without impact counting as the empty string and so
\* coming after every record with a non-empty impact.
C6_ImpactDescending ==
    (CatalogStageCall /\ call.limit >= 0) =>
        /\ \A i, j \in 1..Len(returned) :
              i < j => ~StrLess(KeyOf(returned[i]), KeyOf(returned[j]))
        /\ \A i, j \in 1..Len(returned) :
              (~strategies[returned[i]].has_impact
                 /\ KeyOf(returned[j]) # <<>>) => j < i

C6_Witness ==
    /\ CatalogStageCall
    /\ call.limit >= 0
    /\ \E i, j, k \in 1..Len(returned) :
          /\ KeyOf(returned[i]) = High
          /\ KeyOf(returned[j]) = Hi
          /\ ~strategies[returned[k]].has_impact
          /\ returned[k] < returned[i]

\* C7 as stated: with the requested stages absent or an empty sequence the
\* report has exactly one entry for each of the six catalog stages.
C7_NoneOrEmptyDefaultsToAll ==
    (ReportCall /\ (call.selected_stages = NoneArg
                       \/ call.selected_stages = ListArg(<<>>))) =>
        /\ Range(recommendations.keys) = DOMAIN FUNNEL_STAGES
        /\ Len(recommendations.keys) = Cardinality(DOMAIN FUNNEL_STAGES)

\* C7 amended: with the requested stages absent (None) the report has
\* exactly one entry for each of the six catalog stages; with an empty
\* sequence of keys the report has no entry.
C7_NoneDefaultsToAll ==
    /\ (ReportCall /\ call.selected_stages = NoneArg) =>
          /\ Range(recommendations.keys) = DOMAIN FUNNEL_STAGES
          /\ DOMAIN recommendations.items = DOMAIN FUNNEL_STAGES
          /\ Len(recommendations.keys) = Cardinality(DOMAIN FUNNEL_STAGES)
    /\ (ReportCall /\ call.selected_stages = ListArg(<<>>)) =>
          recommendations = EmptyDict

C7_Witness ==
    /\ ReportCall
    /\ call.selected_stages = NoneArg
    /\ recommendations.keys = FunnelStageKeys
    /\ recommendations.items["awareness"].count > 0
    /\ recommendations.items["referral"].count > 0

\* C8: a key that is not in the catalog gives the empty sequence, and the
\* keys of a report for a non-empty request are exactly the requested keys
\* that are in the catalog, each with one entry.
C8_UnknownKeysIgnored ==
    /\ (StageCall /\ call.stage_key \notin DOMAIN FUNNEL_STAGES /\ call.limit >= 0)
          => returned = <<>>
    /\ (ReportCall /\ call.selected_stages.tag # "None"
                   /\ call.selected_stages.val # <<>> /\ call.limit >= 0) =>
          /\ Range(recommendations.keys)
                = Range(call.selected_stages.val) \cap DOMAIN FUNNEL_STAGES
          /\ DOMAIN recommendations.items = Range(recommendations.keys)
          /\ Len(recommendations.keys) = Cardinality(Range(recommendations.keys))

C8_Witness ==
    /\ ReportCall
    /\ call.limit > 0
    /\ call.selected_stages = ListArg(<<"not_a_stage", "awareness">>)
    /\ recommendations.keys = <<"awareness">>
    /\ recommendations.items["awareness"].count > 0

C10_TiesInInputOrder ==
    (CatalogStageCall /\ call.limit >= 0) =>
        /\ \A i, j \in 1..Len(returned) :
              (i < j /\ KeyOf(returned[i]) = KeyOf(returned[j]))
                 => returned[i] < returned[j]
        /\ \A q \in Range(returned) :
              \A r \in Range(Unique(strategies, StageBuckets)) \ Range(returned) :
                  KeyOf(q) = KeyOf(r) => q < r

C10_Witness ==
    /\ CatalogStageCall
    /\ call.limit >= 0
    /\ \E i, j \in 1..Len(returned) :
          i < j /\ KeyOf(returned[i]) = KeyOf(returned[j])
    /\ \E r \in Range(Unique(strategies, StageBuckets)) \ Range(returned) :
          KeyOf(r) = KeyOf(returned[Len(returned)])

====
